---------------------------- MODULE Spec2Model ----------------------------
(***************************************************************************)
(* Model of the storefront cart widget of                                  *)
(* mi_ecommerce/tienda/static/tienda/script.js: the price parser, the cart *)
(* store, the summary renderer, the catalog binder, the search filter and  *)
(* the checkout trigger.                                                   *)
(*                                                                         *)
(* Strings are sequences of one-character strings.  A JavaScript Number is *)
(* represented by the decimal literal it was read from (integer digits and *)
(* fraction digits, normalised), together with NaN and Infinity; binary    *)
(* rounding of the fraction is not represented, overflow of the double     *)
(* range is.                                                               *)
(***************************************************************************)
EXTENDS Integers, Sequences, FiniteSets, TLC

(***************************************************************************)
(* Bounds of the model.                                                    *)
(***************************************************************************)
MaxPriceLen == 4
NumItems == 2
MaxQty == 2
FractionDigits == 3

(***************************************************************************)
(* Characters and strings.                                                 *)
(***************************************************************************)
Digits == {"0", "1", "2", "3", "4", "5", "6", "7", "8", "9"}

DigitVal(c) ==
    CASE c = "0" -> 0 [] c = "1" -> 1 [] c = "2" -> 2 [] c = "3" -> 3
      [] c = "4" -> 4 [] c = "5" -> 5 [] c = "6" -> 6 [] c = "7" -> 7
      [] c = "8" -> 8 [] c = "9" -> 9

\* The value of an absent data attribute (undefined).  No string equals it:
\* every element of a string is a single character.
Absent == <<"undefined">>

\* Length of the longest prefix of s made of digits only.
DigitRun(s) ==
    IF \A k \in 1..Len(s) : s[k] \in Digits
    THEN Len(s)
    ELSE (CHOOSE n \in 1..Len(s) :
            /\ s[n] \notin Digits
            /\ \A k \in 1..(n - 1) : s[k] \in Digits) - 1

DropLeadingZeros(s) ==
    IF \A k \in 1..Len(s) : s[k] = "0"
    THEN <<>>
    ELSE SubSeq(s, CHOOSE n \in 1..Len(s) :
                      /\ s[n] # "0"
                      /\ \A k \in 1..(n - 1) : s[k] = "0", Len(s))

DropTrailingZeros(s) ==
    IF \A k \in 1..Len(s) : s[k] = "0"
    THEN <<>>
    ELSE SubSeq(s, 1, CHOOSE n \in 1..Len(s) :
                         /\ s[n] # "0"
                         /\ \A k \in (n + 1)..Len(s) : s[k] = "0")

(***************************************************************************)
(* Numbers.                                                                *)
(***************************************************************************)
NaN == [kind |-> "NaN", ip |-> <<>>, fp |-> <<>>]
Infinity == [kind |-> "Infinity", ip |-> <<>>, fp |-> <<>>]
Zero == [kind |-> "finite", ip |-> <<>>, fp |-> <<>>]

\* Number.MAX_VALUE is about 1.7976931348623157e308: 309 integer digits.
MaxValueDigits == 309
MaxValuePrefix ==
    <<"1", "7", "9", "7", "6", "9", "3", "1", "3", "4", "8", "6", "2", "3", "1", "5", "8">>

\* s >= t in lexicographic order, for digit strings with Len(s) >= Len(t).
RECURSIVE LexGE(_, _)
LexGE(s, t) ==
    IF t = <<>> THEN TRUE
    ELSE IF DigitVal(Head(s)) # DigitVal(Head(t))
         THEN DigitVal(Head(s)) > DigitVal(Head(t))
         ELSE LexGE(Tail(s), Tail(t))

\* The Number a decimal with integer digits ip and fraction digits fp is read
\* as: a magnitude beyond the double range is read as Infinity.
ToNumber(ip, fp) ==
    LET i == DropLeadingZeros(ip)
        f == DropTrailingZeros(fp)
    IN  IF Len(i) > MaxValueDigits
           \/ (Len(i) = MaxValueDigits /\ LexGE(i, MaxValuePrefix))
        THEN Infinity
        ELSE [kind |-> "finite", ip |-> i, fp |-> f]

\* parseFloat on a string without sign, exponent or white space: the longest
\* prefix that is a decimal literal (digits, digits., digits.digits or
\* .digits); NaN when there is none.
parseFloat(s) ==
    LET n == DigitRun(s)
        ip == SubSeq(s, 1, n)
        rest == SubSeq(s, n + 1, Len(s))
        hasDot == rest # <<>> /\ Head(rest) = "."
        m == IF hasDot THEN DigitRun(Tail(rest)) ELSE 0
        fp == IF hasDot THEN SubSeq(Tail(rest), 1, m) ELSE <<>>
    IN  IF n = 0 /\ m = 0 THEN NaN ELSE ToNumber(ip, fp)

isNaN(x) == x.kind = "NaN"

(***************************************************************************)
(* Price Parser.                                                           *)
(***************************************************************************)
\* Variant of CleanedPrice: the class [^\d] in place of [^\d,].
CleanedPriceDigitsOnly(priceString) ==
    SelectSeq(priceString, LAMBDA c : c \in Digits)

\* priceString.replace(/[^\d,]/g, '')
CleanedPrice(priceString) ==
    SelectSeq(priceString, LAMBDA c : c \in Digits \cup {","})

\* cleanedPrice.replace(',', '.'): the first comma only.
FinalPrice(cleanedPrice) ==
    IF \E i \in 1..Len(cleanedPrice) : cleanedPrice[i] = ","
    THEN LET k == CHOOSE i \in 1..Len(cleanedPrice) :
                    /\ cleanedPrice[i] = ","
                    /\ \A j \in 1..(i - 1) : cleanedPrice[j] # ","
         IN  [cleanedPrice EXCEPT ![k] = "."]
    ELSE cleanedPrice

\* isNaN(parsedPrice) ? 0 : parsedPrice
OrZero(parsedPrice) == IF isNaN(parsedPrice) THEN Zero ELSE parsedPrice

parsePrice(priceString) ==
    IF priceString = Absent \/ priceString = <<>>
    THEN Zero
    ELSE OrZero(parseFloat(FinalPrice(CleanedPrice(priceString))))

(***************************************************************************)
(* The catalog: the dataset of the .product-item elements of the page.     *)
(***************************************************************************)
Descriptors ==
    << [id |-> <<"7">>, nombre |-> <<"C", "h", "o">>,
        presentacion |-> <<"5", "0", "0", "g">>, contenido |-> Absent,
        precio |-> <<"$", "1", ".", "2", "3", "4", ",", "5", "0">>],
       [id |-> <<"7">>, nombre |-> <<"c", "h", "a">>,
        presentacion |-> <<"1", "-", "k", "g">>, contenido |-> <<"x", "6">>,
        precio |-> <<"1", "2", ".", "5", "0">>],
       [id |-> <<"7", "-", "1">>, nombre |-> <<"T", "e">>,
        presentacion |-> <<"k", "g">>, contenido |-> <<>>,
        precio |-> <<"2", ",", "5">>],
       [id |-> <<"8">>, nombre |-> <<"P", "a", "n">>,
        presentacion |-> Absent, contenido |-> Absent,
        precio |-> Absent] >>

\* The values event.target.value takes.
Queries == { <<>>, <<"c", "h">>, <<"T", "E">> }

\* What the page markup may show before the script first writes a region:
\* the text every .quantity-display starts with, and the amount the text of
\* #summary-total starts with.
MarkupQuantities == {0, 1}
MarkupTotals == {0, 100}

ItemIds == 1..NumItems

\* The catalogs of NumItems elements.  The handlers treat every element
\* alike, so the elements are listed in the order of Descriptors; two
\* elements may carry the same dataset.
Catalogs ==
    { [i \in ItemIds |-> Descriptors[pick[i]]] :
        pick \in { f \in [ItemIds -> DOMAIN Descriptors] :
                     \A i, j \in ItemIds : i <= j => f[i] <= f[j] } }

VARIABLES
    catalog,           \* productItems: the dataset of each element
    cart,              \* the cart object: its lines, in insertion order
    quantityDisplay,   \* textContent of each element's .quantity-display
    hidden,            \* whether each element's classList holds 'hidden'
    summaryList,       \* content of #summary-list
    summaryTotal,      \* textContent of #summary-total
    totalEmptyClass,   \* whether #summary-total's classList holds 'empty'
    checkoutDisabled,  \* checkoutButton.disabled
    alertText,         \* the message of the last alert
    lastEvent,         \* the last event handled: the handler, the element
                       \* it belongs to, the search term, and whether it
                       \* called updateSummary
    priceInput,        \* argument of the parsePrice call under study:
                       \* .nines digits "9" followed by .text
    parsedPrice,       \* its result
    phase              \* "input" / "parsed" for that call, "page" otherwise

domVars == <<quantityDisplay, hidden, summaryList, summaryTotal,
             totalEmptyClass, checkoutDisabled, alertText>>
parseVars == <<priceInput, parsedPrice, phase>>

\* The string priceInput stands for.
priceString == [n \in 1..priceInput.nines |-> "9"] \o priceInput.text
vars == <<catalog, cart, domVars, lastEvent, parseVars>>

(***************************************************************************)
(* Catalog Binder: the constants each element's handlers close over.       *)
(***************************************************************************)
\* `${v}` of a dataset value.
TemplateText(v) ==
    IF v = Absent THEN <<"u", "n", "d", "e", "f", "i", "n", "e", "d">> ELSE v

\* item.dataset.x ?? ''
OrEmpty(v) == IF v = Absent THEN <<>> ELSE v

\* `${id}-${presentation}`
KeyOf(id, presentation) == TemplateText(id) \o <<"-">> \o presentation

uniqueKey(i) == KeyOf(catalog[i].id, OrEmpty(catalog[i].presentacion))

\* { name, price, presentation, content, quantity: 0 }, with the key it is
\* stored under.
NewLine(i) ==
    [key |-> uniqueKey(i),
     name |-> catalog[i].nombre,
     price |-> parsePrice(catalog[i].precio),
     presentation |-> OrEmpty(catalog[i].presentacion),
     content |-> OrEmpty(catalog[i].contenido),
     quantity |-> 0]

(***************************************************************************)
(* Cart Store.                                                             *)
(***************************************************************************)
CartKeys(c) == {c[n].key : n \in 1..Len(c)}

\* cart[key], for a key the cart holds.
LineAt(c, key) == c[CHOOSE n \in 1..Len(c) : c[n].key = key]

\* cart[key] is truthy.
Has(c, key) == key \in CartKeys(c)

QuantityOf(c, key) == IF Has(c, key) THEN LineAt(c, key).quantity ELSE 0

\* cart[key] = line, for a key the cart does not hold: appended.
PutLine(c, line) == Append(c, line)

\* cart[key].quantity += d
AddQuantity(c, key, d) ==
    [n \in 1..Len(c) |->
        IF c[n].key = key THEN [c[n] EXCEPT !.quantity = @ + d] ELSE c[n]]

\* delete cart[key]
DeleteKey(c, key) == SelectSeq(c, LAMBDA line : line.key # key)

(***************************************************************************)
(* Amounts.  An amount is an integer number of units of 10^-FractionDigits;*)
(* the catalog's prices have at most FractionDigits fraction digits.       *)
(***************************************************************************)
RECURSIVE Pow10(_)
Pow10(n) == IF n = 0 THEN 1 ELSE 10 * Pow10(n - 1)

RECURSIVE DigitsToInt(_)
DigitsToInt(s) ==
    IF s = <<>> THEN 0
    ELSE 10 * DigitsToInt(SubSeq(s, 1, Len(s) - 1)) + DigitVal(s[Len(s)])

\* The amount of a finite Number.
AmountOf(x) ==
    DigitsToInt(x.ip) * Pow10(FractionDigits)
      + DigitsToInt(x.fp) * Pow10(FractionDigits - Len(x.fp))

\* minimumFractionDigits of the formatter; ARS has two fraction digits, so
\* this is its maximumFractionDigits too.
MinimumFractionDigits == 2

\* formatter.format(amount): the es-AR currency text of the amount rounded
\* half up to MinimumFractionDigits digits, held as that number of cents.
Format(amount) ==
    LET unit == Pow10(FractionDigits - MinimumFractionDigits)
    IN  [kind |-> "formatted", cents |-> (2 * amount + unit) \div (2 * unit)]

\* The text 'Total: $0.00'.
LiteralZeroTotal == [kind |-> "literal", cents |-> 0]

(***************************************************************************)
(* Summary Renderer.                                                       *)
(***************************************************************************)
\* item.price * item.quantity
ItemTotal(item) == AmountOf(item.price) * item.quantity

\* total, after the loop over the cart.
RECURSIVE Total(_)
Total(c) == IF c = <<>> THEN 0 ELSE ItemTotal(Head(c)) + Total(Tail(c))

\* The .summary-item built for a line.
SummaryItem(item) ==
    LET presentationText ==
            IF item.presentation # <<>>
            THEN <<" ", "(">> \o item.presentation \o <<")">> ELSE <<>>
        contentText ==
            IF item.content # <<>>
            THEN <<" ", "-", " ">> \o item.content ELSE <<>>
    IN  [text |-> TemplateText(item.name) \o presentationText \o contentText,
         quantity |-> item.quantity,
         amount |-> Format(ItemTotal(item))]

\* Variant of SummaryItems: each entry is put before the earlier ones.
SummaryItemsPrepended(c) == [n \in 1..Len(c) |-> SummaryItem(c[Len(c) + 1 - n])]

SummaryItems(c) == [n \in 1..Len(c) |-> SummaryItem(c[n])]

EmptyMessage == [kind |-> "empty-message", items |-> <<>>]

\* checkoutButton.disabled as updateSummary sets it.
DisabledFor(c) == Len(c) = 0

\* summaryTotal.textContent as updateSummary sets it.
TotalTextFor(c) == IF Len(c) = 0 THEN LiteralZeroTotal ELSE Format(Total(c))

\* updateSummary(), run on cart c.
updateSummary(c) ==
    /\ summaryList' = IF Len(c) = 0 THEN EmptyMessage
                      ELSE [kind |-> "items", items |-> SummaryItems(c)]
    /\ summaryTotal' = TotalTextFor(c)
    /\ checkoutDisabled' = DisabledFor(c)
    /\ totalEmptyClass' = (Total(c) = 0)

(***************************************************************************)
(* Handlers of the .btn-add and .btn-remove buttons of element i.          *)
(***************************************************************************)
\* Variant of CartAfterAdd: a new line starts at quantity 1 and is then
\* incremented like an existing one.
CartAfterAddFromOne(c, i) ==
    LET c1 == IF ~Has(c, uniqueKey(i))
              THEN PutLine(c, [NewLine(i) EXCEPT !.quantity = 1]) ELSE c
    IN  AddQuantity(c1, uniqueKey(i), 1)

\* Variant of CartAfterAdd: the line is rebuilt from the clicked element's
\* dataset on every increment.
CartAfterAddRebuilt(c, i) ==
    IF ~Has(c, uniqueKey(i))
    THEN PutLine(c, [NewLine(i) EXCEPT !.quantity = 1])
    ELSE [n \in 1..Len(c) |->
            IF c[n].key = uniqueKey(i)
            THEN [NewLine(i) EXCEPT !.quantity = c[n].quantity + 1]
            ELSE c[n]]

\* The cart after the addButton handler of element i.
CartAfterAdd(c, i) ==
    LET c1 == IF ~Has(c, uniqueKey(i)) THEN PutLine(c, NewLine(i)) ELSE c
    IN  AddQuantity(c1, uniqueKey(i), 1)

\* Variant of RemoveActs: the handler without its if.
RemoveActsAlways(c, i) == TRUE

\* Whether the removeButton handler of element i acts:
\* cart[uniqueKey] && cart[uniqueKey].quantity > 0
RemoveActs(c, i) == Has(c, uniqueKey(i)) /\ QuantityOf(c, uniqueKey(i)) > 0

\* Variant of CartAfterRemove: the line is kept when its quantity reaches 0.
CartAfterRemoveKeepZero(c, i) == AddQuantity(c, uniqueKey(i), -1)

\* The cart after the body of that if.
CartAfterRemove(c, i) ==
    LET c1 == AddQuantity(c, uniqueKey(i), -1)
    IN  IF QuantityOf(c1, uniqueKey(i)) = 0
        THEN DeleteKey(c1, uniqueKey(i)) ELSE c1

Add(i) ==
    /\ phase = "page"
    /\ QuantityOf(cart, uniqueKey(i)) < MaxQty
    /\ cart' = CartAfterAdd(cart, i)
    /\ quantityDisplay' =
          [quantityDisplay EXCEPT ![i] = QuantityOf(cart', uniqueKey(i))]
    /\ updateSummary(cart')
    /\ lastEvent' = [op |-> "add", item |-> i, query |-> <<>>, rendered |-> TRUE]
    /\ UNCHANGED <<catalog, hidden, alertText, parseVars>>

Remove(i) ==
    /\ phase = "page"
    /\ IF RemoveActs(cart, i)
       THEN /\ cart' = CartAfterRemove(cart, i)
            /\ quantityDisplay' =
                  [quantityDisplay EXCEPT ![i] = QuantityOf(cart', uniqueKey(i))]
            /\ updateSummary(cart')
            /\ lastEvent' = [op |-> "remove", item |-> i, query |-> <<>>, rendered |-> TRUE]
       ELSE /\ UNCHANGED <<cart, quantityDisplay, summaryList, summaryTotal,
                           totalEmptyClass, checkoutDisabled>>
            /\ lastEvent' = [op |-> "remove", item |-> i, query |-> <<>>, rendered |-> FALSE]
    /\ UNCHANGED <<catalog, hidden, alertText, parseVars>>

(***************************************************************************)
(* Checkout Trigger.  A disabled button dispatches no click.               *)
(***************************************************************************)
\* Object.keys(cart).forEach(key => delete cart[key])
RECURSIVE ClearCart(_)
ClearCart(c) == IF c = <<>> THEN c ELSE ClearCart(DeleteKey(c, Head(c).key))

\* Variant of ResetDisplays: only the first element's display is reset.
ResetDisplaysFirstOnly(displays) ==
    [i \in DOMAIN displays |-> IF i = 1 THEN 0 ELSE displays[i]]

\* The displays after productItems.forEach(... textContent = '0').
ResetDisplays(displays) == [i \in DOMAIN displays |-> 0]

Checkout ==
    /\ phase = "page"
    /\ ~checkoutDisabled
    /\ alertText' = summaryTotal
    /\ cart' = ClearCart(cart)
    /\ updateSummary(cart')
    /\ quantityDisplay' = ResetDisplays(quantityDisplay)
    /\ lastEvent' = [op |-> "checkout", item |-> 0, query |-> <<>>, rendered |-> TRUE]
    /\ UNCHANGED <<catalog, hidden, parseVars>>

(***************************************************************************)
(* Search Filter.                                                          *)
(***************************************************************************)
toLowerCase(s) ==
    [n \in 1..Len(s) |->
        CASE s[n] = "C" -> "c" [] s[n] = "T" -> "t" [] s[n] = "E" -> "e"
          [] s[n] = "P" -> "p" [] OTHER -> s[n]]

\* s.includes(t)
Includes(s, t) ==
    \E k \in 0..(Len(s) - Len(t)) : SubSeq(s, k + 1, k + Len(t)) = t

\* Variant of HiddenAfterSearch: the search term is not lower-cased.
HiddenAfterSearchCaseSensitive(cat, query) ==
    [i \in DOMAIN cat |-> ~Includes(toLowerCase(cat[i].nombre), query)]

\* The hidden flags after the input handler ran with value query.
HiddenAfterSearch(cat, query) ==
    [i \in DOMAIN cat |->
        ~Includes(toLowerCase(cat[i].nombre), toLowerCase(query))]

\* Variant of Search: the handler also calls updateSummary().
SearchAndRender(query) ==
    /\ phase = "page"
    /\ hidden' = HiddenAfterSearch(catalog, query)
    /\ updateSummary(cart)
    /\ lastEvent' = [op |-> "search", item |-> 0, query |-> query, rendered |-> TRUE]
    /\ UNCHANGED <<catalog, cart, quantityDisplay, alertText, parseVars>>

Search(query) ==
    /\ phase = "page"
    /\ hidden' = HiddenAfterSearch(catalog, query)
    /\ lastEvent' = [op |-> "search", item |-> 0, query |-> query, rendered |-> FALSE]
    /\ UNCHANGED <<catalog, cart, quantityDisplay, summaryList, summaryTotal,
                   totalEmptyClass, checkoutDisabled, alertText, parseVars>>

(***************************************************************************)
(* The page: the state when the DOMContentLoaded handler has returned.     *)
(* The handler writes no region of the page, so each region shows what the *)
(* markup gave it; no element carries the class 'hidden', which only the   *)
(* search handler adds.                                                    *)
(***************************************************************************)
NoAlert == [kind |-> "none", cents |-> 0]
Loaded == [op |-> "load", item |-> 0, query |-> <<>>, rendered |-> FALSE]

PageInit ==
    /\ catalog \in Catalogs
    /\ cart = <<>>
    /\ \E m \in MarkupQuantities : quantityDisplay = [i \in ItemIds |-> m]
    /\ hidden = [i \in ItemIds |-> FALSE]
    /\ summaryList = [kind |-> "markup", items |-> <<>>]
    /\ summaryTotal \in {[kind |-> "markup", cents |-> a] : a \in MarkupTotals}
    /\ totalEmptyClass \in BOOLEAN
    /\ checkoutDisabled \in BOOLEAN
    /\ alertText = NoAlert
    /\ lastEvent = Loaded
    /\ priceInput = [nines |-> 0, text |-> Absent]
    /\ parsedPrice = Zero
    /\ phase = "page"

(***************************************************************************)
(* parsePrice on its own: one call, on an argument drawn from PriceInputs. *)
(***************************************************************************)
PriceChars == {"0", "1", "5", ",", ".", "$", "-"}

\* The arguments: the short strings over PriceChars, the catalog's prices,
\* two more prices, and digit strings beyond the double range, alone and
\* with a decimal part.
PriceInputs ==
    {[nines |-> 0, text |-> t] :
        t \in UNION {[1..n -> PriceChars] : n \in 0..MaxPriceLen}
                \cup {Descriptors[d].precio : d \in DOMAIN Descriptors}
                \cup {<<"$", "1", "2", ".", "5", "0">>, <<"1", "2", ",", "5", "0">>}}
      \cup {[nines |-> MaxValueDigits + 1, text |-> t] : t \in {<<>>, <<",", "5">>}}

ParseInit ==
    /\ priceInput \in PriceInputs
    /\ parsedPrice = Zero
    /\ phase = "input"
    /\ catalog = <<>>
    /\ cart = <<>>
    /\ quantityDisplay = <<>>
    /\ hidden = <<>>
    /\ summaryList = [kind |-> "markup", items |-> <<>>]
    /\ summaryTotal = [kind |-> "markup", cents |-> 0]
    /\ totalEmptyClass = FALSE
    /\ checkoutDisabled = FALSE
    /\ alertText = NoAlert
    /\ lastEvent = Loaded

ParsePrice ==
    /\ phase = "input"
    /\ parsedPrice' = parsePrice(priceString)
    /\ phase' = "parsed"
    /\ UNCHANGED <<catalog, cart, domVars, lastEvent, priceInput>>

Init == PageInit \/ ParseInit

Next ==
    \/ \E i \in ItemIds : Add(i)
    \/ \E i \in ItemIds : Remove(i)
    \/ Checkout
    \/ \E query \in Queries : Search(query)
    \/ ParsePrice

Spec == Init /\ [][Next]_vars

(***************************************************************************)
(* Properties.                                                             *)
(***************************************************************************)
\* The amount a text of #summary-total shows, in the units of Total.
ShownAmount(text) == text.cents * Pow10(FractionDigits - MinimumFractionDigits)

\* The pair (productId, presentation) of element i.
PairOf(i) == <<catalog[i].id, OrEmpty(catalog[i].presentacion)>>

\* C1: every line the cart holds has an integer quantity of at least 1, in
\* every state the handlers leave.
QuantityAtLeastOne ==
    \A n \in 1..Len(cart) : cart[n].quantity \in Nat /\ cart[n].quantity >= 1

\* A decrement took a line's quantity to 0 and removed it, other lines staying.
LineRemovedAtZero ==
    /\ lastEvent.op = "remove"
    /\ lastEvent.rendered
    /\ ~Has(cart, uniqueKey(lastEvent.item))
    /\ cart # <<>>

\* C2: the total #summary-total shows is the sum of price x quantity over
\* the cart's lines, and the zero amount when the cart is empty.
ShownTotalIsSum ==
    phase = "page" =>
        /\ ShownAmount(summaryTotal) = Total(cart)
        /\ (cart = <<>> => summaryTotal.cents = 0)

\* C3: the checkout button is disabled exactly when the cart has no line,
\* from the moment the page is loaded.
DisabledIffEmpty ==
    phase = "page" => (checkoutDisabled <=> cart = <<>>)

\* C4: two elements whose (productId, presentation) pairs differ have
\* different composite keys.
DistinctPairsDistinctKeys ==
    phase = "page" =>
        \A i, j \in ItemIds : PairOf(i) # PairOf(j) => uniqueKey(i) # uniqueKey(j)

\* C5: when the checkout handler has run, the cart is empty, every quantity
\* display shows 0, the summary shows the placeholder and a zero total, and
\* the checkout button is disabled.
CheckoutEmptiesEverything ==
    lastEvent.op = "checkout" =>
        /\ cart = <<>>
        /\ \A i \in ItemIds : quantityDisplay[i] = 0
        /\ summaryList = EmptyMessage
        /\ summaryTotal.cents = 0
        /\ checkoutDisabled

\* A checkout of a cart that held a line: the total it reported was rendered
\* from a non-empty cart.
CheckedOutNonEmpty ==
    /\ lastEvent.op = "checkout"
    /\ alertText.kind = "formatted"

\* C6: a click on the remove button of an element whose key the cart does
\* not hold changes neither the cart nor any region of the page, and does
\* not run updateSummary.
DecrementAbsentIsNoOp ==
    [][ (lastEvent'.op = "remove" /\ ~Has(cart, uniqueKey(lastEvent'.item)))
            => (UNCHANGED <<catalog, cart, domVars>> /\ ~lastEvent'.rendered) ]_vars

\* A decrement of an absent line was handled while the cart held another line.
DecrementedAbsent ==
    /\ lastEvent.op = "remove"
    /\ ~lastEvent.rendered
    /\ ~Has(cart, uniqueKey(lastEvent.item))
    /\ cart # <<>>

\* C7: a search input event changes nothing but the hidden flags: the cart,
\* the quantity displays, the summary and the checkout button stay as they are.
SearchLeavesCart ==
    [][ lastEvent'.op = "search"
            => UNCHANGED <<catalog, cart, quantityDisplay, summaryList,
                           summaryTotal, totalEmptyClass, checkoutDisabled,
                           alertText>> ]_vars

\* A search that hid an element was handled while the cart held a line.
SearchedWithCart ==
    /\ lastEvent.op = "search"
    /\ cart # <<>>
    /\ \E i \in ItemIds : hidden[i]

(***************************************************************************)
(* The amount a price string is meant to denote.                           *)
(***************************************************************************)
Count(s, c) == Cardinality({k \in 1..Len(s) : s[k] = c})

FirstIndex(s, c) == CHOOSE k \in 1..Len(s) : s[k] = c /\ \A j \in 1..(k - 1) : s[j] # c

DigitsOf(s) == SelectSeq(s, LAMBDA c : c \in Digits)

\* The amount of a string whose decimal separator is sep: the digits before
\* the separator are its integer part, those after it its fraction.
IntendedAmount(s, sep) ==
    LET k == FirstIndex(s, sep)
    IN  ToNumber(DigitsOf(SubSeq(s, 1, k - 1)), DigitsOf(SubSeq(s, k + 1, Len(s))))

\* Digits, optional dot thousands separators before the comma, at most one
\* currency symbol, exactly one decimal comma.
IsCommaDecimal(s) ==
    /\ s # Absent
    /\ \A k \in 1..Len(s) : s[k] \in Digits \cup {".", "$", ","}
    /\ Count(s, ",") = 1
    /\ Count(s, "$") <= 1
    /\ \A k \in 1..Len(s) : s[k] = "." => k < FirstIndex(s, ",")

\* Digits around exactly one decimal dot, at most one currency symbol, no
\* comma.
IsDotDecimal(s) ==
    /\ s # Absent
    /\ \A k \in 1..Len(s) : s[k] \in Digits \cup {".", "$"}
    /\ Count(s, ".") = 1
    /\ Count(s, "$") <= 1
    /\ DigitsOf(SubSeq(s, 1, FirstIndex(s, ".") - 1)) # <<>>
    /\ DigitsOf(SubSeq(s, FirstIndex(s, ".") + 1, Len(s))) # <<>>

\* C8: parsePrice of a dot-decimal price string without comma is the amount
\* the string denotes.
DotDecimalParsedAsIntended ==
    (phase = "parsed" /\ IsDotDecimal(priceString))
        => parsedPrice = IntendedAmount(priceString, ".")

\* C9: parsePrice of a comma-decimal price string is the amount the string
\* denotes; a cart holding only the line of the product priced "$1.234,50",
\* with quantity 2, shows the total 2469.00.
CommaDecimalParsedAsIntended ==
    /\ (phase = "parsed" /\ IsCommaDecimal(priceString))
          => parsedPrice = IntendedAmount(priceString, ",")
    /\ phase = "page" =>
          \A n \in 1..Len(cart) : \A i \in ItemIds :
             (cart[n].key = uniqueKey(i) /\ catalog[i] = Descriptors[1])
                => /\ cart[n].price = IntendedAmount(catalog[i].precio, ",")
                   /\ (Len(cart) = 1 /\ cart[n].quantity = 2)
                         => summaryTotal = [kind |-> "formatted", cents |-> 246900]

\* parsePrice has returned 1234.5 for "$1.234,50".
ParsedThousandsAndComma ==
    /\ phase = "parsed"
    /\ priceString = <<"$", "1", ".", "2", "3", "4", ",", "5", "0">>
    /\ parsedPrice = [kind |-> "finite", ip |-> <<"1", "2", "3", "4">>, fp |-> <<"5">>]

\* C10: parsePrice returns a finite number that is not negative and not NaN,
\* and 0 for an absent or empty argument and for one without a number in it;
\* every line's price is such a number.
ParsedFiniteNonNegative ==
    /\ phase = "parsed" =>
          /\ parsedPrice.kind = "finite"
          /\ (priceString = Absent \/ DigitsOf(priceString) = <<>>)
                => parsedPrice = Zero
    /\ \A n \in 1..Len(cart) : cart[n].price.kind = "finite"

\* C11: an increment raises the quantity under the element's key by exactly
\* 1, creating the line at quantity 1 when the key was absent; a decrement of
\* a present key lowers it by exactly 1 and removes the line at 0; neither
\* touches the quantity under another key.  So n increments and then m <= n
\* decrements of one key leave quantity n - m, and no line when n = m.
StepsByOne ==
    [][ /\ lastEvent'.op = "add" =>
              /\ Has(cart', uniqueKey(lastEvent'.item))
              /\ QuantityOf(cart', uniqueKey(lastEvent'.item))
                    = QuantityOf(cart, uniqueKey(lastEvent'.item)) + 1
        /\ (lastEvent'.op = "remove" /\ Has(cart, uniqueKey(lastEvent'.item))) =>
              /\ QuantityOf(cart', uniqueKey(lastEvent'.item))
                    = QuantityOf(cart, uniqueKey(lastEvent'.item)) - 1
              /\ Has(cart', uniqueKey(lastEvent'.item))
                    <=> QuantityOf(cart, uniqueKey(lastEvent'.item)) > 1
        /\ lastEvent'.op \in {"add", "remove"} =>
              \A j \in ItemIds :
                 uniqueKey(j) # uniqueKey(lastEvent'.item) =>
                    QuantityOf(cart', uniqueKey(j)) = QuantityOf(cart, uniqueKey(j))
      ]_vars

\* Two increments and then one decrement of a key: its line has quantity 1.
DecrementedToOne ==
    /\ lastEvent.op = "remove"
    /\ lastEvent.rendered
    /\ QuantityOf(cart, uniqueKey(lastEvent.item)) = 1

\* The keys of the cart's lines, in the order the cart holds them.
KeySeq(c) == [n \in 1..Len(c) |-> c[n].key]

\* C12: after every render the summary holds one entry per line of the cart
\* and nothing else, the n-th entry carrying the n-th line's name, quantity
\* and price x quantity; the lines are in insertion order: a new key goes
\* last, an increment or decrement of a present key moves no line, and a
\* removed key leaves the others in their order.
SummaryShowsCartInOrder ==
    [][ /\ lastEvent'.rendered =>
              /\ summaryList'.kind = (IF cart' = <<>> THEN "empty-message" ELSE "items")
              /\ Len(summaryList'.items) = Len(cart')
              /\ \A n \in 1..Len(cart') :
                    LET entry == summaryList'.items[n]
                        name == TemplateText(cart'[n].name)
                    IN  /\ SubSeq(entry.text, 1, Len(name)) = name
                        /\ entry.quantity = cart'[n].quantity
                        /\ ShownAmount(entry.amount) = ItemTotal(cart'[n])
        /\ lastEvent'.op = "add" =>
              KeySeq(cart') =
                 IF Has(cart, uniqueKey(lastEvent'.item))
                 THEN KeySeq(cart)
                 ELSE Append(KeySeq(cart), uniqueKey(lastEvent'.item))
        /\ lastEvent'.op = "remove" =>
              KeySeq(cart') =
                 IF QuantityOf(cart, uniqueKey(lastEvent'.item)) = 1
                 THEN SelectSeq(KeySeq(cart),
                                LAMBDA k : k # uniqueKey(lastEvent'.item))
                 ELSE KeySeq(cart)
      ]_vars

\* A render of two lines with different quantities, the key added last shown
\* last.
RenderedTwoLines ==
    /\ lastEvent.op = "add"
    /\ summaryList.kind = "items"
    /\ Len(summaryList.items) = 2
    /\ cart[2].key = uniqueKey(lastEvent.item)
    /\ summaryList.items[1].quantity = 2
    /\ summaryList.items[2].quantity = 1

\* C13: whenever the checkout handler runs, the cart holds a line, the alert
\* reports the sum of price x quantity over the cart as it is on activation,
\* and the cart is empty afterwards.
ConfirmationReportsTotal ==
    [][ lastEvent'.op = "checkout" =>
            /\ cart # <<>>
            /\ alertText'.kind # "none"
            /\ ShownAmount(alertText') = Total(cart)
            /\ cart' = <<>>
      ]_vars

\* t occurs in s as a run of consecutive characters.
IsSubstring(t, s) ==
    \E a \in 1..(Len(s) + 1) : \E b \in (a - 1)..Len(s) : SubSeq(s, a, b) = t

\* C14: when a search input event has been handled, an element is hidden
\* exactly when its lower-cased name does not contain the lower-cased search
\* term of that event, whatever was hidden before; the empty term hides
\* nothing.
HiddenIffNoMatch ==
    lastEvent.op = "search" =>
        /\ \A i \in ItemIds :
              hidden[i] <=> ~IsSubstring(toLowerCase(lastEvent.query),
                                         toLowerCase(catalog[i].nombre))
        /\ lastEvent.query = <<>> => \A i \in ItemIds : ~hidden[i]

\* A search whose term matches an element only when case is ignored: that
\* element is shown and another one is hidden.
SearchedIgnoringCase ==
    /\ lastEvent.op = "search"
    /\ \E i, j \in ItemIds :
          /\ ~hidden[i]
          /\ ~IsSubstring(lastEvent.query, catalog[i].nombre)
          /\ hidden[j]

\* C15: when an increment, a decrement or a checkout has been handled, every
\* element's quantity display shows the quantity of the line under that
\* element's key, and 0 when the cart holds no such line.
DisplaysShowQuantities ==
    lastEvent.op \in {"add", "remove", "checkout"} =>
        \A i \in ItemIds : quantityDisplay[i] = QuantityOf(cart, uniqueKey(i))

\* The fields of a line other than its quantity.
Captured(line) == <<line.name, line.price, line.presentation, line.content>>

\* C16: a line keeps its name, price, presentation and content from the step
\* that creates it to the step that removes it, and a line is created with
\* the values of the dataset of the element whose increment creates it; the
\* datasets themselves never change.
LineDataFixed ==
    [][ /\ catalog' = catalog
        /\ \A n \in 1..Len(cart) :
              Has(cart', cart[n].key) =>
                 Captured(LineAt(cart', cart[n].key)) = Captured(cart[n])
        /\ (lastEvent'.op = "add" /\ ~Has(cart, uniqueKey(lastEvent'.item))) =>
              LET d == catalog[lastEvent'.item]
              IN  Captured(LineAt(cart', uniqueKey(lastEvent'.item)))
                    = <<d.nombre, parsePrice(d.precio),
                        OrEmpty(d.presentacion), OrEmpty(d.contenido)>>
      ]_vars

\* A line created by one element has been incremented from another element
\* that shares its key but carries another name.
IncrementedByOtherElement ==
    /\ lastEvent.op = "add"
    /\ Has(cart, uniqueKey(lastEvent.item))
    /\ LineAt(cart, uniqueKey(lastEvent.item)).name # catalog[lastEvent.item].nombre
    /\ LineAt(cart, uniqueKey(lastEvent.item)).quantity = 2

=============================================================================
